---- MODULE Spec2Model ----
(***************************************************************************)
(* pyrate: the optical element (core/optical_element.py) and the index     *)
(* formula container of the glass catalog (core/glasscatalog.py).          *)
(*                                                                         *)
(* Python dicts are functions whose DOMAIN is the set of keys present.     *)
(* Python objects are named by identifiers; two names denote the same      *)
(* object exactly when the identifiers are equal (id(a) == id(b)).         *)
(* Attributes that the code sets on an object (name, comment) are kept in  *)
(* maps from the object to the attribute value.                            *)
(***************************************************************************)
EXTENDS Integers, Sequences, FiniteSets, TLC

VARIABLES
    \* ---- OpticalElement fields (optical_element.py:46-48) ----
    surfaces,             \* self.__surfaces: surface key -> Surface object
    materials,            \* self.__materials: material key -> Material object
    surf_mat_connection,  \* self.__surf_mat_connection: surface key -> <<minus, plus>>
    surfName,             \* Surface object -> its .name attribute
    matComment,           \* Material object -> its .comment attribute
    \* ---- the last addSurface / addMaterial call and how it ended ----
    call,                 \* [nr, op, key, obj]: the call being reported
    outcome,              \* "none" | "ok" | "warning" | "Exception"
    firstAdded,           \* history: key -> first root-connected material passed under it
    \* ---- the Sequence argument of the operation under way ----
    sequence,             \* list of <<surface key, options dict>>
    \* ---- sequence_to_hitlist / hitlist_to_sequence ----
    hpc,                  \* "idle" | "start" | "hitlist" | "back"
    hitlist,              \* list of <<start key, end key, hit>>
    optionshitlistdict,   \* <<start key, end key, hit>> -> <<start options, end options>>
    seq_back,             \* the list hitlist_to_sequence returned
    \* ---- seqtrace: arguments, locals, position ----
    tpc,                  \* "idle" | "loop" | "propagate" | "interact" | "done" | "error"
    splitup,              \* argument splitup
    background_medium,    \* argument background_medium (a Material object)
    current_material,     \* the material cursor
    idx,                  \* number of Sequence entries completed
    j,                    \* position of rp in the for loop over rpaths under way
    rpaths,               \* list of Ray Paths; a Ray Path is the list of its bundles' ids
    rpaths_new,           \* the branches created at the entry under way
    heap,                 \* Ray Bundle objects by id: heap[id] is the bundle's content
    current_surface,      \* self.__surfaces[surfkey]
    mnmat, pnmat,         \* the two adjacent Material objects of the surface
    refract_flag,         \* not is_mirror
    result,               \* what seqtrace returned, NoResult before and on error
    \* ---- history of the entry under way (or just completed) ----
    liveBefore,           \* len(rpaths) when the entry began
    returned,             \* per previously live path, the list refract/reflect returned
    branchParent,         \* per branch of rpaths_new, the position of its parent path
    maxReturned,          \* the longest list any refract/reflect call of this trace returned
    calls,                \* history: the cursor at the start of the entry under way, then
                          \* its Material calls and cursor assignment, in execution order
    \* ---- calculateXYUV / para_seqtrace ----
    xpc,                  \* "idle" | "start" | "fit" | "para" | "done"
    pilotraypath,         \* the selected pilot Ray Path: list of bundle contents
    XYUVmatrices,         \* the Transfer Matrix Table: <<s1, s2, numhit>> -> matrix
    xi,                   \* position in zip(start bundles, end bundles, hitlist)
    DX,                   \* the difference state para_seqtrace carries along
    used,                 \* history: the matrix para_seqtrace multiplied by, per interval
    \* ---- IndexFormulaContainer ----
    ifc,                  \* the object's attributes (a dict)
    ifc_n_typ,            \* the n_typ the container was built with, "none" before __init__
    getres,               \* how the last get_n call ended
    \* ---- bestfit_transfer ----
    fitX,                 \* argument X: the input state matrix (list of rows)
    fitY,                 \* argument Y: the output state matrix
    use6x6,               \* argument use6x6
    fitres                \* what the last bestfit_transfer call did

elemVars == <<surfaces, materials, surf_mat_connection, surfName, matComment,
              call, outcome, firstAdded>>

hitVars == <<hpc, hitlist, optionshitlistdict, seq_back>>

traceVars == <<tpc, splitup, background_medium, current_material, idx, j, rpaths,
               rpaths_new, heap, current_surface, mnmat, pnmat, refract_flag, result,
               liveBefore, returned, branchParent, maxReturned, calls>>

xyVars == <<xpc, pilotraypath, XYUVmatrices, xi, DX, used>>

ifcVars == <<ifc, ifc_n_typ, getres>>

fitVars == <<fitX, fitY, use6x6, fitres>>

vars == <<elemVars, sequence, hitVars, traceVars, xyVars, ifcVars, fitVars>>

\* what each group of operations leaves alone
NotElem == <<sequence, hitVars, traceVars, xyVars, ifcVars, fitVars>>
NotHit == <<elemVars, traceVars, xyVars, ifcVars, fitVars>>
NotTrace == <<elemVars, hitVars, xyVars, ifcVars, fitVars>>
NotXY == <<elemVars, traceVars, ifcVars, fitVars>>
NotIfc == <<elemVars, sequence, hitVars, traceVars, xyVars, fitVars>>
NotFit == <<elemVars, sequence, hitVars, traceVars, xyVars, ifcVars>>

-----------------------------------------------------------------------------
(* Dict helpers *)

EmptyDict == [k \in {} |-> 0]

Put(d, k, v) == [x \in (DOMAIN d) \cup {k} |-> IF x = k THEN v ELSE d[x]]

Get(d, k, default) == IF k \in DOMAIN d THEN d[k] ELSE default

-----------------------------------------------------------------------------
(* Bounds and input universes *)

MaxCalls == 3
MaxHitSeqLen == 4
MaxSeqLen == 2
MaxM == 2
MaxPaths == 4
MaxPilotLen == 3
MaxWavelength == 3
NumPts == 3

SurfKeys == {"A", "B"}
MatKeys == {"m1", "m2"}
\* "air" is a material key that no addMaterial call of the model ever uses
ConnKeys == MatKeys \cup {"air"}

SurfObjs == {"S1", "S2", "S3"}
MatObjs == {"M1", "M2", "M3"}
Names == {"", "front"}
Comments == {"", "glass"}

\* options dicts of a Sequence entry: {}, {"is_mirror": True}, {"is_mirror": False}
OptionsSet == {EmptyDict, [k \in {"is_mirror"} |-> TRUE], [k \in {"is_mirror"} |-> FALSE]}

\* all Sequences of at most n entries
SeqsUpTo(n) == UNION {[1..m -> SurfKeys \X OptionsSet] : m \in 0..n}

\* Coordinate frames: a tree given by the parent of each frame.
Frames == {"root", "f1", "f2", "g"}
FrameParent == [f \in Frames |->
                  CASE f = "f1" -> "root"
                    [] f = "f2" -> "f1"
                    [] OTHER -> "none"]

\* surface_object.rootcoordinatesystem / material_object.lc
rootcoordinatesystem == [o \in SurfObjs |->
                           CASE o = "S1" -> "f1" [] o = "S2" -> "f2" [] OTHER -> "g"]
lc == [o \in MatObjs \cup {"BG"} |->
         CASE o = "M1" -> "f1" [] o = "M2" -> "f2" [] o = "BG" -> "root" [] OTHER -> "g"]

RECURSIVE Ancestors(_)
Ancestors(f) == IF f = "none" THEN {} ELSE {f} \cup Ancestors(FrameParent[f])

\* LocalCoordinatesTreeBase.checkForRootConnection: the frame is the element's
\* root frame or one of its (transitive) children.
checkForRootConnection(frame) == "root" \in Ancestors(frame)

-----------------------------------------------------------------------------
(* OpticalElement.__init__ *)

InitElement ==
    /\ surfaces = EmptyDict
    /\ materials = EmptyDict
    /\ surf_mat_connection = EmptyDict
    /\ surfName = [o \in SurfObjs |-> ""]
    /\ matComment = [o \in MatObjs |-> ""]
    /\ call = [nr |-> 0, op |-> "none", key |-> "none", obj |-> "none"]
    /\ outcome = "none"
    /\ firstAdded = EmptyDict

(* OpticalElement.addSurface *)

addSurface(key, surface_object, materialkeys, name) ==
    /\ call.nr < MaxCalls
    /\ call' = [nr |-> call.nr + 1, op |-> "addSurface", key |-> key,
                obj |-> surface_object]
    /\ IF checkForRootConnection(rootcoordinatesystem[surface_object])
       THEN /\ surfaces' = Put(surfaces, key, surface_object)
            /\ surfName' = [surfName EXCEPT ![surface_object] = name]
            /\ surf_mat_connection' = Put(surf_mat_connection, key, materialkeys)
            /\ outcome' = "ok"
       ELSE /\ outcome' = "Exception"
            /\ UNCHANGED <<surfaces, surfName, surf_mat_connection>>
    /\ UNCHANGED <<materials, matComment, firstAdded>>
    /\ UNCHANGED NotElem

(* OpticalElement.addMaterial *)

\* faulty variant: the root connection of the material's frame is not tested
addMaterial_nocheck(key, material_object, comment) ==
    /\ call.nr < MaxCalls
    /\ call' = [nr |-> call.nr + 1, op |-> "addMaterial", key |-> key,
                obj |-> material_object]
    /\ IF key \notin DOMAIN materials
       THEN /\ materials' = Put(materials, key, material_object)
            /\ matComment' = [matComment EXCEPT ![material_object] = comment]
            /\ outcome' = "ok"
       ELSE /\ outcome' = "warning"
            /\ UNCHANGED <<materials, matComment>>
    /\ firstAdded' = IF checkForRootConnection(lc[material_object])
                        /\ key \notin DOMAIN firstAdded
                     THEN Put(firstAdded, key, material_object)
                     ELSE firstAdded
    /\ UNCHANGED <<surfaces, surfName, surf_mat_connection>>
    /\ UNCHANGED NotElem

\* faulty variant: a taken key is overwritten
addMaterial_overwrite(key, material_object, comment) ==
    /\ call.nr < MaxCalls
    /\ call' = [nr |-> call.nr + 1, op |-> "addMaterial", key |-> key,
                obj |-> material_object]
    /\ IF checkForRootConnection(lc[material_object])
       THEN /\ materials' = Put(materials, key, material_object)
            /\ matComment' = [matComment EXCEPT ![material_object] = comment]
            /\ outcome' = "ok"
       ELSE /\ outcome' = "Exception"
            /\ UNCHANGED <<materials, matComment>>
    /\ firstAdded' = IF checkForRootConnection(lc[material_object])
                        /\ key \notin DOMAIN firstAdded
                     THEN Put(firstAdded, key, material_object)
                     ELSE firstAdded
    /\ UNCHANGED <<surfaces, surfName, surf_mat_connection>>
    /\ UNCHANGED NotElem

addMaterial(key, material_object, comment) ==
    /\ call.nr < MaxCalls
    /\ call' = [nr |-> call.nr + 1, op |-> "addMaterial", key |-> key,
                obj |-> material_object]
    /\ IF checkForRootConnection(lc[material_object])
       THEN IF key \notin DOMAIN materials
            THEN /\ materials' = Put(materials, key, material_object)
                 /\ matComment' = [matComment EXCEPT ![material_object] = comment]
                 /\ outcome' = "ok"
            ELSE /\ outcome' = "warning"
                 /\ UNCHANGED <<materials, matComment>>
       ELSE /\ outcome' = "Exception"
            /\ UNCHANGED <<materials, matComment>>
    /\ firstAdded' = IF checkForRootConnection(lc[material_object])
                        /\ key \notin DOMAIN firstAdded
                     THEN Put(firstAdded, key, material_object)
                     ELSE firstAdded
    /\ UNCHANGED <<surfaces, surfName, surf_mat_connection>>
    /\ UNCHANGED NotElem

CallAddSurface ==
    \E key \in SurfKeys, o \in SurfObjs, mk \in ConnKeys \X ConnKeys, name \in Names :
        addSurface(key, o, mk, name)

CallAddMaterial ==
    \E key \in MatKeys, o \in MatObjs, comment \in Comments :
        addMaterial(key, o, comment)

IdleHit ==
    /\ hpc = "idle"
    /\ hitlist = <<>>
    /\ optionshitlistdict = EmptyDict
    /\ seq_back = <<>>

NoResult == "none"

IdleTrace ==
    /\ tpc = "idle"
    /\ splitup = FALSE
    /\ background_medium = "BG"
    /\ current_material = "BG"
    /\ idx = 0
    /\ j = 0
    /\ rpaths = <<>>
    /\ rpaths_new = <<>>
    /\ heap = <<>>
    /\ current_surface = "none"
    /\ mnmat = "none"
    /\ pnmat = "none"
    /\ refract_flag = FALSE
    /\ result = NoResult
    /\ liveBefore = 0
    /\ returned = <<>>
    /\ branchParent = <<>>
    /\ maxReturned = 0
    /\ calls = <<>>

IdleXY ==
    /\ xpc = "idle"
    /\ pilotraypath = <<>>
    /\ XYUVmatrices = EmptyDict
    /\ xi = 0
    /\ DX = <<0, 1>>
    /\ used = <<>>

IdleIfc ==
    /\ ifc = EmptyDict
    /\ ifc_n_typ = "none"
    /\ getres = [called |-> FALSE, wavelength |-> 0, outcome |-> "none", by |-> "none"]

\* no bestfit_transfer call made
NoFit == [called |-> FALSE, warnings |-> {}, outcome |-> "none",
          XX |-> <<>>, YX |-> <<>>, num |-> <<>>, den |-> 0]

IdleFit ==
    /\ fitX = <<>>
    /\ fitY = <<>>
    /\ use6x6 = TRUE
    /\ fitres = NoFit

InitElem ==
    /\ InitElement
    /\ sequence = <<>>
    /\ IdleHit
    /\ IdleTrace
    /\ IdleXY
    /\ IdleIfc
    /\ IdleFit

NextElem == CallAddSurface \/ CallAddMaterial

SpecElem == InitElem /\ [][NextElem]_vars

-----------------------------------------------------------------------------
(* Claims about addSurface / addMaterial, checked under SpecElem *)

StoredConnected ==
    /\ \A k \in DOMAIN surfaces :
          checkForRootConnection(rootcoordinatesystem[surfaces[k]])
    /\ \A k \in DOMAIN materials :
          checkForRootConnection(lc[materials[k]])

\* the frame of the object passed to the call c
CallFrame(c) == IF c.op = "addSurface" THEN rootcoordinatesystem[c.obj] ELSE lc[c.obj]

\* C8: after any sequence of addSurface and addMaterial calls every stored
\* Surface and Material has a frame connected to the root frame, and a call
\* whose object's frame is not connected ends with an exception and leaves
\* the surface map, the material map and the connection map unchanged.
C8_StoredFramesConnected ==
    /\ []StoredConnected
    /\ [][(call'.nr # call.nr /\ ~checkForRootConnection(CallFrame(call')))
            => (/\ outcome' = "Exception"
                /\ UNCHANGED <<surfaces, materials, surf_mat_connection>>)]_vars

\* C8 witness: a call was refused for its frame after a surface and a material
\* had been stored.
C8_Witness ==
    /\ outcome = "Exception"
    /\ ~checkForRootConnection(CallFrame(call))
    /\ DOMAIN surfaces # {}
    /\ DOMAIN materials # {}

\* C9 as stated: every addMaterial call with a key already in the material map
\* does not fail, emits a warning, leaves the stored material and comment, and
\* each key maps to the first root-connected material added under it.
C9_Original ==
    /\ [](materials = firstAdded)
    /\ [][(call'.nr # call.nr /\ call'.op = "addMaterial"
             /\ call'.key \in DOMAIN materials)
            => (/\ outcome' = "warning"
                /\ UNCHANGED <<materials, matComment>>)]_vars

\* C9 amended: an addMaterial call with a key already in the material map and
\* a material whose frame is connected to the root frame does not fail: it
\* emits a warning and leaves the material map and the stored comment
\* unchanged; each key maps to the first root-connected material added under it.
C9_DuplicateKeyKeepsFirst ==
    /\ [](materials = firstAdded)
    /\ [][(call'.nr # call.nr /\ call'.op = "addMaterial"
             /\ call'.key \in DOMAIN materials
             /\ checkForRootConnection(lc[call'.obj]))
            => (/\ outcome' = "warning"
                /\ UNCHANGED <<materials, matComment>>)]_vars

\* C9 witness: a second, different, root-connected material was passed under a
\* taken key and the first one is still stored.
C9_Witness ==
    /\ outcome = "warning"
    /\ call.op = "addMaterial"
    /\ call.key \in DOMAIN materials
    /\ materials[call.key] # call.obj
    /\ checkForRootConnection(lc[call.obj])

-----------------------------------------------------------------------------
(* OpticalElement.sequence_to_hitlist *)

\* faulty variant: the incremented hit is not written back to hitlist_dict
RECURSIVE S2HLoop_nocount(_, _, _, _, _)
S2HLoop_nocount(surfnames, i, hitlist_dict, hl, opts) ==
    IF i + 1 > Len(surfnames)
    THEN <<hl, opts>>
    ELSE LET sb == surfnames[i][1]
             optsb == surfnames[i][2]
             se == surfnames[i + 1][1]
             optse == surfnames[i + 1][2]
             hit == Get(hitlist_dict, <<sb, se>>, 0) + 1
         IN  S2HLoop_nocount(surfnames, i + 1, hitlist_dict,
                             Append(hl, <<sb, se, hit>>),
                             Put(opts, <<sb, se, hit>>, <<optsb, optse>>))

sequence_to_hitlist_nocount(seq) ==
    S2HLoop_nocount(seq, 1, EmptyDict, <<>>, EmptyDict)

\* the loop over zip(surfnames[:-1], surfnames[1:]), i the position of sb
RECURSIVE S2HLoop(_, _, _, _, _)
S2HLoop(surfnames, i, hitlist_dict, hl, opts) ==
    IF i + 1 > Len(surfnames)
    THEN <<hl, opts>>
    ELSE LET sb == surfnames[i][1]
             optsb == surfnames[i][2]
             se == surfnames[i + 1][1]
             optse == surfnames[i + 1][2]
             hit == Get(hitlist_dict, <<sb, se>>, 0) + 1
         IN  S2HLoop(surfnames, i + 1, Put(hitlist_dict, <<sb, se>>, hit),
                     Append(hl, <<sb, se, hit>>),
                     Put(opts, <<sb, se, hit>>, <<optsb, optse>>))

sequence_to_hitlist(seq) ==
    S2HLoop(seq, 1, EmptyDict, <<>>, EmptyDict)

(* OpticalElement.hitlist_to_sequence *)

\* faulty variant: the end key of the last triple is not appended
RECURSIVE H2SLoop_nolast(_, _, _, _)
H2SLoop_nolast(hl, opts, ind, seq) ==
    IF ind > Len(hl)
    THEN seq
    ELSE LET sb == hl[ind][1]
             pair == <<sb, TRUE, opts[hl[ind]][1]>>
         IN  H2SLoop_nolast(hl, opts, ind + 1, Append(seq, pair))

hitlist_to_sequence_nolast(hl, opts) == H2SLoop_nolast(hl, opts, 1, <<>>)

\* the loop over enumerate(hitlist); ind counts from 1 here
RECURSIVE H2SLoop(_, _, _, _)
H2SLoop(hl, opts, ind, seq) ==
    IF ind > Len(hl)
    THEN seq
    ELSE LET sb == hl[ind][1]
             se == hl[ind][2]
             pair == <<sb, TRUE, opts[hl[ind]][1]>>
             seq1 == Append(seq, pair)
             seq2 == IF ind = Len(hl)
                     THEN Append(seq1, <<se, TRUE, opts[hl[ind]][2]>>)
                     ELSE seq1
         IN  H2SLoop(hl, opts, ind + 1, seq2)

hitlist_to_sequence(hl, opts) == H2SLoop(hl, opts, 1, <<>>)

(* The codec applied to every Sequence of at most MaxHitSeqLen entries *)

InitHit ==
    /\ InitElement
    /\ sequence \in SeqsUpTo(MaxHitSeqLen)
    /\ hpc = "start"
    /\ hitlist = <<>>
    /\ optionshitlistdict = EmptyDict
    /\ seq_back = <<>>
    /\ IdleTrace
    /\ IdleXY
    /\ IdleIfc
    /\ IdleFit

CallSequenceToHitlist ==
    /\ hpc = "start"
    /\ LET r == sequence_to_hitlist(sequence)
       IN  /\ hitlist' = r[1]
           /\ optionshitlistdict' = r[2]
    /\ hpc' = "hitlist"
    /\ UNCHANGED <<sequence, seq_back>>
    /\ UNCHANGED NotHit

CallHitlistToSequence ==
    /\ hpc = "hitlist"
    /\ seq_back' = hitlist_to_sequence(hitlist, optionshitlistdict)
    /\ hpc' = "back"
    /\ UNCHANGED <<sequence, hitlist, optionshitlistdict>>
    /\ UNCHANGED NotHit

NextHit == CallSequenceToHitlist \/ CallHitlistToSequence

SpecHit == InitHit /\ [][NextHit]_vars

-----------------------------------------------------------------------------
(* Claims about the hitlist codec, checked under SpecHit *)

Max(a, b) == IF a >= b THEN a ELSE b

\* how many of the first i adjacent pairs of seq are the pair <<sb, se>>
Occurrences(seq, i, sb, se) ==
    Cardinality({n \in 1..i : seq[n][1] = sb /\ seq[n + 1][1] = se})

HitlistTriples ==
    \A i \in 1..Len(hitlist) :
        hitlist[i] = <<sequence[i][1], sequence[i + 1][1],
                       Occurrences(sequence, i, sequence[i][1], sequence[i + 1][1])>>

\* C2 as stated: the hitlist of a Sequence of length L has length L-1, its
\* i-th triple is (key i, key i+1, hit), and the hits of one ordered key pair
\* are 1, 2, 3, ... in hitlist order.
C2_Original ==
    hpc \in {"hitlist", "back"} =>
        /\ Len(hitlist) = Len(sequence) - 1
        /\ HitlistTriples

\* C2 amended: the hitlist of a Sequence of length L >= 1 has length L-1 and
\* that of the empty Sequence is empty; its i-th triple is (key i, key i+1,
\* hit), and the hits of one ordered key pair are 1, 2, 3, ... in hitlist order.
C2_HitlistShape ==
    hpc \in {"hitlist", "back"} =>
        /\ Len(hitlist) = Max(Len(sequence) - 1, 0)
        /\ HitlistTriples

\* C2 witness: a hitlist of three triples in which one key pair was hit three times
C2_Witness ==
    /\ hpc = "hitlist"
    /\ Len(hitlist) = 3
    /\ hitlist[3][3] = 3

NoRepeatedPair(seq) ==
    \A i, n \in 1..(Len(seq) - 1) :
        (i # n) => <<seq[i][1], seq[i + 1][1]>> # <<seq[n][1], seq[n + 1][1]>>

KeyCount(seq, k) == Cardinality({i \in 1..Len(seq) : seq[i][1] = k})

SameKeys(s, t) ==
    /\ \A k \in SurfKeys : KeyCount(s, k) = KeyCount(t, k)
    /\ (Len(s) >= 1) => /\ Len(t) >= 1
                        /\ t[1][1] = s[1][1]
                        /\ t[Len(t)][1] = s[Len(s)][1]

\* C3 as stated: for every Sequence without a repeated ordered adjacent key
\* pair the round trip yields the same keys with the same multiplicities, the
\* same first key and the same last key.
C3_Original ==
    (hpc = "back" /\ NoRepeatedPair(sequence)) => SameKeys(sequence, seq_back)

\* C3 amended: the same for every such Sequence whose length is not 1 (the
\* hitlist of a one-entry Sequence is empty and the round trip yields the
\* empty list).
C3_RoundTripKeys ==
    (hpc = "back" /\ NoRepeatedPair(sequence) /\ Len(sequence) # 1)
        => SameKeys(sequence, seq_back)

\* C3 witness: a round trip of a three-entry Sequence without repeated pair
C3_Witness ==
    /\ hpc = "back"
    /\ Len(sequence) = 3
    /\ NoRepeatedPair(sequence)
    /\ Len(seq_back) = 3

\* the hitlist triples are pairwise distinct, so every triple has its own
\* options-map entry, holding the options of its two Sequence entries
DistinctTriples ==
    /\ \A i, n \in 1..Len(hitlist) : (i # n) => hitlist[i] # hitlist[n]
    /\ Cardinality(DOMAIN optionshitlistdict) = Len(hitlist)
    /\ \A i \in 1..Len(hitlist) :
          optionshitlistdict[hitlist[i]] = <<sequence[i][2], sequence[i + 1][2]>>

\* C16: for every Sequence s of length >= 2, repeated ordered key pairs
\* included, hitlist_to_sequence(sequence_to_hitlist(s)) has the length of s
\* and its i-th entry is (i-th key of s, True, i-th options of s); the hitlist
\* triples are pairwise distinct and no options-map entry is overwritten; for
\* a Sequence of length 0 or 1 the result is the empty list.
C16_RoundTripEntries ==
    /\ (hpc \in {"hitlist", "back"}) => DistinctTriples
    /\ (hpc = "back") =>
          IF Len(sequence) >= 2
          THEN /\ Len(seq_back) = Len(sequence)
               /\ \A i \in 1..Len(sequence) :
                     seq_back[i] = <<sequence[i][1], TRUE, sequence[i][2]>>
          ELSE seq_back = <<>>

\* C16 witness: a round trip of a four-entry Sequence that visits the pair
\* (A, A) three times, with options that differ from entry to entry
C16_Witness ==
    /\ hpc = "back"
    /\ Len(sequence) = 4
    /\ \A i \in 1..4 : sequence[i][1] = "A"
    /\ sequence[2][2] # sequence[3][2]
    /\ sequence[3][2] # sequence[4][2]
    /\ Len(seq_back) = 4
    /\ seq_back[3][3] = sequence[3][2]

-----------------------------------------------------------------------------
(* OpticalElement.seqtrace *)

Last(s) == s[Len(s)]

\* faulty variant: the first-listed material is returned whatever the cursor
findoutWhichMaterial_first(mat1, mat2, current_mat) == mat1

\* OpticalElement.findoutWhichMaterial: reference comparison
findoutWhichMaterial(mat1, mat2, current_mat) ==
    IF mat1 = current_mat THEN mat2 ELSE mat1

\* faulty variant: the copy of the path shares the bundle objects
deepcopy_shallow(rp, base) == rp

\* faulty variant: the copy of the path lacks the trailing bundle
deepcopy_short(rp, base) == [k \in 1..(Len(rp) - 1) |-> base + k]

\* copy.deepcopy of a Ray Path: every bundle is a new object; the copies get
\* the ids base+1 .. base+len(rp)
deepcopy(rp, base) == [k \in 1..Len(rp) |-> base + k]

\* faulty variant: the inner loop runs over raybundles, not raybundles[1:]
BranchBundles_all(raybundles) == raybundles

\* the bundles for which the inner loop "for rb in raybundles[1:]" runs
BranchBundles(raybundles) == SubSeq(raybundles, 2, Len(raybundles))

\* faulty variant: "rpaths = rpaths_new + rpaths"
JoinPaths_newfirst(old, new) == new \o old

\* faulty variant: "rpaths = rpaths_new"
JoinPaths_onlynew(old, new) == new

\* "rpaths = rpaths + rpaths_new"
JoinPaths(old, new) == old \o new

\* Elements of the kind addSurface/addMaterial build: surface A is S1,
\* surface B is S2, materials m1, m2 are M1, M2; "air" is in no material map.
\* A surface stands between two glasses, between a glass and the surrounding
\* medium, or in the surrounding medium on both sides.
SurfOf == [k \in SurfKeys |-> IF k = "A" THEN "S1" ELSE "S2"]
ConnChoices == {<<"m1", "m2">>, <<"m2", "air">>, <<"air", "air">>}

\* seqtrace is entered: lines 306-309
InitTrace ==
    /\ \E D \in SUBSET SurfKeys :
          /\ surfaces = [k \in D |-> SurfOf[k]]
          /\ surf_mat_connection \in [D -> ConnChoices]
    /\ materials = [k \in MatKeys |-> IF k = "m1" THEN "M1" ELSE "M2"]
    /\ firstAdded = materials
    /\ surfName = [o \in SurfObjs |-> ""]
    /\ matComment = [o \in MatObjs |-> ""]
    /\ call = [nr |-> 0, op |-> "none", key |-> "none", obj |-> "none"]
    /\ outcome = "none"
    /\ IdleHit
    /\ IdleXY
    /\ IdleIfc
    /\ IdleFit
    /\ sequence \in SeqsUpTo(MaxSeqLen)
    /\ splitup \in BOOLEAN
    /\ background_medium = "BG"
    /\ current_material = background_medium
    /\ heap = <<[born |-> 0, op |-> "initial", mat |-> "none", rank |-> 1, traj |-> <<>>]>>
    /\ rpaths = << <<1>> >>
    /\ tpc = "loop"
    /\ idx = 0
    /\ j = 0
    /\ rpaths_new = <<>>
    /\ current_surface = "none"
    /\ mnmat = "none"
    /\ pnmat = "none"
    /\ refract_flag = FALSE
    /\ result = NoResult
    /\ liveBefore = 0
    /\ returned = <<>>
    /\ branchParent = <<>>
    /\ maxReturned = 0
    /\ calls = <<>>

\* faulty variant: the entry of an unknown surface key is skipped
BeginEntry_skipunknown ==
    /\ tpc = "loop"
    /\ idx < Len(sequence)
    /\ LET surfkey == sequence[idx + 1][1]
           surfoptions == sequence[idx + 1][2]
       IN  /\ refract_flag' = ~Get(surfoptions, "is_mirror", FALSE)
           /\ rpaths_new' = <<>>
           /\ IF surfkey \notin DOMAIN surfaces
              THEN /\ tpc' = "loop"
                   /\ idx' = idx + 1
                   /\ UNCHANGED <<current_surface, mnmat, pnmat, j>>
              ELSE /\ current_surface' = surfaces[surfkey]
                   /\ mnmat' = Get(materials, surf_mat_connection[surfkey][1],
                                   background_medium)
                   /\ pnmat' = Get(materials, surf_mat_connection[surfkey][2],
                                   background_medium)
                   /\ tpc' = "propagate"
                   /\ j' = 1
                   /\ UNCHANGED idx
    /\ liveBefore' = Len(rpaths)
    /\ returned' = <<>>
    /\ branchParent' = <<>>
    /\ UNCHANGED <<splitup, background_medium, current_material, rpaths, heap,
                   result, maxReturned, sequence>>
    /\ calls' = <<[op |-> "entry", mat |-> current_material, surf |-> "none",
                  path |-> 0, bundle |-> 0]>>
    /\ UNCHANGED NotTrace

\* lines 314-326: the next entry is taken, surface and materials resolved;
\* self.__surfaces[surfkey] raises KeyError for a key that is not in the map
BeginEntry ==
    /\ tpc = "loop"
    /\ idx < Len(sequence)
    /\ LET surfkey == sequence[idx + 1][1]
           surfoptions == sequence[idx + 1][2]
       IN  /\ refract_flag' = ~Get(surfoptions, "is_mirror", FALSE)
           /\ rpaths_new' = <<>>
           /\ IF surfkey \notin DOMAIN surfaces
              THEN /\ tpc' = "error"
                   /\ UNCHANGED <<current_surface, mnmat, pnmat, j>>
              ELSE /\ current_surface' = surfaces[surfkey]
                   /\ mnmat' = Get(materials, surf_mat_connection[surfkey][1],
                                   background_medium)
                   /\ pnmat' = Get(materials, surf_mat_connection[surfkey][2],
                                   background_medium)
                   /\ tpc' = "propagate"
                   /\ j' = 1
    /\ liveBefore' = Len(rpaths)
    /\ returned' = <<>>
    /\ branchParent' = <<>>
    /\ UNCHANGED <<splitup, background_medium, current_material, idx, rpaths, heap,
                   result, maxReturned, sequence>>
    /\ calls' = <<[op |-> "entry", mat |-> current_material, surf |-> "none",
                  path |-> 0, bundle |-> 0]>>
    /\ UNCHANGED NotTrace

\* faulty variant: the material cursor is moved before the propagate loop, so
\* the bundles are propagated with the material selected for the entry
PropagateStep_selected ==
    /\ tpc = "propagate"
    /\ j <= Len(rpaths)
    /\ LET current_bundle == Last(rpaths[j])
           selected == IF refract_flag
                       THEN findoutWhichMaterial(mnmat, pnmat, current_material)
                       ELSE current_material
       IN  /\ heap' = [heap EXCEPT ![current_bundle].traj =
                          Append(@, <<selected, current_surface>>)]
           /\ calls' = Append(calls, [op |-> "propagate", mat |-> selected,
                                      surf |-> current_surface, path |-> j,
                                      bundle |-> current_bundle])
    /\ j' = j + 1
    /\ UNCHANGED <<tpc, splitup, background_medium, current_material, idx, rpaths,
                   rpaths_new, current_surface, mnmat, pnmat, refract_flag, result,
                   liveBefore, returned, branchParent, maxReturned, sequence>>
    /\ UNCHANGED NotTrace

\* lines 329-331: current_material.propagate(current_bundle, current_surface)
\* extends the trailing bundle of path j in place
PropagateStep ==
    /\ tpc = "propagate"
    /\ j <= Len(rpaths)
    /\ LET current_bundle == Last(rpaths[j])
       IN  /\ heap' = [heap EXCEPT ![current_bundle].traj =
                          Append(@, <<current_material, current_surface>>)]
           /\ calls' = Append(calls, [op |-> "propagate", mat |-> current_material,
                                      surf |-> current_surface, path |-> j,
                                      bundle |-> current_bundle])
    /\ j' = j + 1
    /\ UNCHANGED <<tpc, splitup, background_medium, current_material, idx, rpaths,
                   rpaths_new, current_surface, mnmat, pnmat, refract_flag, result,
                   liveBefore, returned, branchParent, maxReturned, sequence>>
    /\ UNCHANGED NotTrace

\* lines 335-340 and 353: the propagate loop is over; a refracting entry moves
\* the material cursor, a mirror entry leaves it
SelectMaterial ==
    /\ tpc = "propagate"
    /\ j > Len(rpaths)
    /\ current_material' = IF refract_flag
                           THEN findoutWhichMaterial(mnmat, pnmat, current_material)
                           ELSE current_material
    /\ calls' = IF refract_flag
                THEN Append(calls, [op |-> "cursor", mat |-> current_material',
                                    surf |-> "none", path |-> 0, bundle |-> 0])
                ELSE calls
    /\ tpc' = "interact"
    /\ j' = 1
    /\ UNCHANGED <<splitup, background_medium, idx, rpaths, rpaths_new, heap,
                   current_surface, mnmat, pnmat, refract_flag, result,
                   liveBefore, returned, branchParent, maxReturned, sequence>>
    /\ UNCHANGED NotTrace

\* lines 343-350 (op = "refract") and 358-365 (op = "reflect"): the call on the
\* trailing bundle of path j returns M new bundles; one deep copy of the path
\* per additional bundle, then the path itself is continued
InteractPath(op, M) ==
    LET rp == rpaths[j]
        n0 == Len(heap)
        raybundles == [m \in 1..M |-> n0 + m]
        made == [m \in 1..M |-> [born |-> idx + 1, op |-> op, mat |-> current_material,
                                 rank |-> m, traj |-> <<>>]]
        extra == BranchBundles(raybundles)
        copies == [b \in 1..Len(extra) |-> deepcopy(rp, n0 + M + (b - 1) * Len(rp))]
        copied == [q \in 1..(Len(extra) * Len(rp)) |-> heap[rp[((q - 1) % Len(rp)) + 1]]]
        rpathprimes == [b \in 1..Len(extra) |-> Append(copies[b], extra[b])]
    IN  /\ heap' = heap \o made \o copied
        /\ rpaths_new' = rpaths_new \o rpathprimes
        /\ rpaths' = [rpaths EXCEPT ![j] = Append(rp, raybundles[1])]
        /\ returned' = Append(returned, raybundles)
        /\ branchParent' = branchParent \o [b \in 1..Len(extra) |-> j]
        /\ maxReturned' = IF M > maxReturned THEN M ELSE maxReturned
        /\ calls' = Append(calls, [op |-> op, mat |-> current_material,
                                   surf |-> current_surface, path |-> j,
                                   bundle |-> Last(rp)])
        /\ j' = j + 1

RefractStep ==
    /\ tpc = "interact"
    /\ j <= Len(rpaths)
    /\ refract_flag
    /\ \E M \in 1..MaxM :
          /\ Len(rpaths) + Len(rpaths_new) + M - 1 <= MaxPaths
          /\ InteractPath("refract", M)
    /\ UNCHANGED <<tpc, splitup, background_medium, current_material, idx,
                   current_surface, mnmat, pnmat, refract_flag, result,
                   liveBefore, sequence>>
    /\ UNCHANGED NotTrace

ReflectStep ==
    /\ tpc = "interact"
    /\ j <= Len(rpaths)
    /\ ~refract_flag
    /\ \E M \in 1..MaxM :
          /\ Len(rpaths) + Len(rpaths_new) + M - 1 <= MaxPaths
          /\ InteractPath("reflect", M)
    /\ UNCHANGED <<tpc, splitup, background_medium, current_material, idx,
                   current_surface, mnmat, pnmat, refract_flag, result,
                   liveBefore, sequence>>
    /\ UNCHANGED NotTrace

\* line 367: the branches join the live paths
EndEntry ==
    /\ tpc = "interact"
    /\ j > Len(rpaths)
    /\ rpaths' = JoinPaths(rpaths, rpaths_new)
    /\ idx' = idx + 1
    /\ tpc' = "loop"
    /\ UNCHANGED <<splitup, background_medium, current_material, j, rpaths_new, heap,
                   current_surface, mnmat, pnmat, refract_flag, result,
                   liveBefore, returned, branchParent, maxReturned, calls, sequence>>
    /\ UNCHANGED NotTrace

\* line 369
ReturnPaths ==
    /\ tpc = "loop"
    /\ idx = Len(sequence)
    /\ result' = rpaths
    /\ tpc' = "done"
    /\ UNCHANGED <<splitup, background_medium, current_material, idx, j, rpaths,
                   rpaths_new, heap, current_surface, mnmat, pnmat, refract_flag,
                   liveBefore, returned, branchParent, maxReturned, calls, sequence>>
    /\ UNCHANGED NotTrace

NextTrace ==
    \/ BeginEntry
    \/ PropagateStep
    \/ SelectMaterial
    \/ RefractStep
    \/ ReflectStep
    \/ EndEntry
    \/ ReturnPaths

SpecTrace == InitTrace /\ [][NextTrace]_vars

-----------------------------------------------------------------------------
(* Claims about seqtrace, checked under SpecTrace *)

Range(f) == {f[x] : x \in DOMAIN f}

RECURSIVE SumExtra(_)
SumExtra(lists) ==
    IF lists = <<>> THEN 0 ELSE (Len(Head(lists)) - 1) + SumExtra(Tail(lists))

EntryCompleted == tpc \in {"loop", "done"} /\ idx >= 1

\* C4: at every sequence entry, a previously live path whose refract/reflect
\* call returned M >= 1 bundles contributes exactly M live paths after the
\* entry (itself continued with the first bundle plus M-1 branches), so the
\* live path count grows by (M-1) per previously live path and never shrinks.
C4_BranchingCount ==
    EntryCompleted =>
        /\ Len(returned) = liveBefore
        /\ Len(rpaths) = liveBefore + SumExtra(returned)
        /\ Len(rpaths) >= liveBefore
        /\ \A i \in 1..liveBefore :
              /\ Len(returned[i]) >= 1
              /\ Last(rpaths[i]) = returned[i][1]
              /\ Cardinality({p \in 1..Len(rpaths) :
                                Last(rpaths[p]) \in Range(returned[i])})
                     = Len(returned[i])

\* C4 witness: the second entry was reached with two live paths, of which
\* the first branched and the second did not.
C4_Witness ==
    /\ tpc = "loop"
    /\ idx = 2
    /\ liveBefore = 2
    /\ Len(returned) = 2
    /\ Len(returned[1]) = 2
    /\ Len(returned[2]) = 1
    /\ Len(rpaths) = 3

\* the Ray Paths seqtrace holds: the live ones and, while the calls of an
\* entry are made, the branches created so far
HeldPaths == IF tpc = "interact" THEN rpaths \o rpaths_new ELSE rpaths

NoSharedBundle ==
    \A p, q \in 1..Len(HeldPaths) :
        (p # q) => Range(HeldPaths[p]) \cap Range(HeldPaths[q]) = {}

\* a branch is a copy of its parent's history before the continuation, plus
\* its own outgoing bundle
BranchHistory ==
    EntryCompleted =>
        \A b \in 1..Len(branchParent) :
            LET B == rpaths[liveBefore + b]
                P == rpaths[branchParent[b]]
            IN  /\ Len(B) = Len(P)
                /\ \A k \in 1..(Len(B) - 1) : heap[B[k]] = heap[P[k]] /\ B[k] # P[k]
                /\ Last(B) \in Range(returned[branchParent[b]])
                /\ Last(B) # Last(P)

\* the contents of the bundles of live path q
PathView(q) == [k \in 1..Len(rpaths[q]) |-> heap[rpaths[q][k]]]

\* C5: no two Ray Paths held by seqtrace share a Ray Bundle object; each
\* branch owns a copy of the parent's history as it was before the parent's
\* continuation bundle was appended, plus its own outgoing bundle; an
\* in-place propagate on the trailing bundle of one path changes no bundle
\* of any other path.
C5_BranchIndependence ==
    /\ [](NoSharedBundle /\ BranchHistory)
    /\ [][(tpc = "propagate" /\ j <= Len(rpaths))
            => \A q \in 1..Len(rpaths) : (q # j) => PathView(q)' = PathView(q)]_vars

\* C5 witness: after a branching first entry, the second entry's propagate
\* has extended the trailing bundle of path 1 and not yet that of path 2.
C5_Witness ==
    /\ tpc = "propagate"
    /\ idx = 1
    /\ Len(rpaths) = 2
    /\ j = 2
    /\ Len(heap[Last(rpaths[1])].traj) = 1
    /\ Len(heap[Last(rpaths[2])].traj) = 0
    /\ heap[rpaths[2][1]] = heap[rpaths[1][1]]

NonMirror(seq) == \A i \in 1..Len(seq) : ~Get(seq[i][2], "is_mirror", FALSE)

\* C6: seqtrace with splitup=false through a K-entry Sequence of non-mirror
\* entries whose refract calls each return one bundle returns exactly one
\* Ray Path of K+1 bundles: the initial bundle, then one per entry in order.
C6_SinglePath ==
    (tpc = "done" /\ ~splitup /\ NonMirror(sequence) /\ maxReturned <= 1) =>
        /\ Len(result) = 1
        /\ Len(result[1]) = Len(sequence) + 1
        /\ result[1][1] = 1
        /\ heap[1].op = "initial"
        /\ \A k \in 1..Len(sequence) :
              /\ heap[result[1][k + 1]].born = k
              /\ heap[result[1][k + 1]].op = "refract"

\* C6 witness: such a trace of two entries has returned
C6_Witness ==
    /\ tpc = "done"
    /\ ~splitup
    /\ Len(sequence) = 2
    /\ NonMirror(sequence)
    /\ maxReturned = 1
    /\ result # NoResult

HasUnknownKey(seq) == \E i \in 1..Len(seq) : seq[i][1] \notin DOMAIN surfaces

\* C7: seqtrace on a Sequence with a surface key that is not in the surface
\* map fails when it reaches that entry (no Material call is made for it)
\* and returns no list of Ray Paths, wherever the key stands.
C7_UnknownSurfaceFails ==
    /\ (tpc = "error") => /\ result = NoResult
                          /\ sequence[idx + 1][1] \notin DOMAIN surfaces
    /\ (tpc \in {"propagate", "interact"}) => sequence[idx + 1][1] \in DOMAIN surfaces
    /\ (tpc = "loop") => \A i \in 1..idx : sequence[i][1] \in DOMAIN surfaces
    /\ (result # NoResult) => (tpc = "done" /\ ~HasUnknownKey(sequence))
    /\ (tpc = "done") => ~HasUnknownKey(sequence)

\* C7 witness: the error was raised at the second entry, after the first
\* entry had branched
C7_Witness ==
    /\ tpc = "error"
    /\ idx = 1
    /\ Len(rpaths) = 2
    /\ sequence[1][1] \in DOMAIN surfaces
    /\ sequence[2][1] \notin DOMAIN surfaces
    /\ result = NoResult

\* a material key of a connection, resolved as lines 325-326 resolve it
Resolved(k) == IF k \in DOMAIN materials THEN materials[k] ELSE background_medium

\* the two adjacent materials of the surface of the entry under way
AdjacentMaterials ==
    LET conn == surf_mat_connection[sequence[idx + 1][1]]
    IN  <<Resolved(conn[1]), Resolved(conn[2])>>

\* the step in which the entry under way settles its material cursor
SelectsNow == tpc = "propagate" /\ tpc' = "interact"

EntryIsMirror == Get(sequence[idx + 1][2], "is_mirror", FALSE)

CursorStartsAtBackground ==
    (tpc = "loop" /\ idx = 0) => current_material = background_medium

\* C11 as stated: the cursor starts as the background medium; at a refracting
\* entry the new current material is the one of the two adjacent materials
\* (missing keys resolved to the background medium) that is not the same
\* object as the current material, and the first-listed one when the current
\* material is neither of them; at a mirror entry the cursor is unchanged.
C11_Original ==
    /\ []CursorStartsAtBackground
    /\ [][IF SelectsNow /\ ~EntryIsMirror
          THEN LET a == AdjacentMaterials
               IN  IF current_material \in {a[1], a[2]}
                   THEN /\ current_material' \in {a[1], a[2]}
                        /\ current_material' # current_material
                   ELSE current_material' = a[1]
          ELSE current_material' = current_material]_vars

\* C11 amended: the same when the two adjacent materials are different
\* objects; when both adjacent materials are one and the same object, the new
\* current material is that object, also when it already is the current
\* material (the cursor then stays where it is).
C11_MaterialCursor ==
    /\ []CursorStartsAtBackground
    /\ [][IF SelectsNow /\ ~EntryIsMirror
          THEN LET a == AdjacentMaterials
               IN  IF a[1] # a[2] /\ current_material \in {a[1], a[2]}
                   THEN /\ current_material' \in {a[1], a[2]}
                        /\ current_material' # current_material
                   ELSE current_material' = a[1]
          ELSE current_material' = current_material]_vars

\* C11 witness: the second entry is a refracting one between M1 and M2,
\* reached with the cursor on the second-listed M2 (the material that made
\* the trailing bundle), and the cursor has moved to the first-listed M1
C11_Witness ==
    /\ tpc = "interact"
    /\ idx = 1
    /\ j = 1
    /\ ~EntryIsMirror
    /\ AdjacentMaterials = <<"M1", "M2">>
    /\ heap[Last(rpaths[1])].mat = "M2"
    /\ current_material = "M1"

IsPrefix(s, t) == Len(s) <= Len(t) /\ SubSeq(t, 1, Len(s)) = s

\* every path keeps its list index, and is only ever extended
IndexKept ==
    \A i \in 1..Len(rpaths) : i <= Len(rpaths') /\ IsPrefix(rpaths[i], rpaths'[i])

\* <<q, m>>: the trailing bundle of live path p is the m-th bundle returned
\* by the call made for the previously live path q at the entry just completed
Origin(p) ==
    CHOOSE qm \in (1..Len(returned)) \X (1..maxReturned) :
        /\ qm[2] <= Len(returned[qm[1]])
        /\ returned[qm[1]][qm[2]] = Last(rpaths[p])

LexLess(a, b) == a[1] < b[1] \/ (a[1] = b[1] /\ a[2] < b[2])

\* after an entry: path i <= liveBefore was continued with the first bundle
\* returned for it; the branches follow, by parent index, then by position
BranchOrder ==
    EntryCompleted =>
        /\ \A p \in 1..Len(rpaths) : Last(rpaths[p]) \in UNION {Range(r) : r \in Range(returned)}
        /\ \A p \in 1..liveBefore : Origin(p) = <<p, 1>>
        /\ \A p \in (liveBefore + 1)..Len(rpaths) : Origin(p)[2] >= 2
        /\ \A p, q \in (liveBefore + 1)..Len(rpaths) :
              (p < q) => LexLess(Origin(p), Origin(q))

\* the path at index 0 of the result is the initial path, continued at every
\* entry with the first bundle returned for it
FirstPathFollowsFirst ==
    (tpc = "done") =>
        /\ result[1][1] = 1
        /\ \A k \in 2..Len(result[1]) : heap[result[1][k]].rank = 1

CallsOfEntry ==
    EntryCompleted =>
        LET n == liveBefore
            before == calls[1].mat
            mirror == Get(sequence[idx][2], "is_mirror", FALSE)
            k == IF mirror THEN 0 ELSE 1
            surf == surfaces[sequence[idx][1]]
        IN  /\ calls[1].op = "entry"
            /\ (idx = 1) => before = background_medium
            /\ Len(calls) = 1 + n + k + n
            /\ \A i \in 1..n :
                  calls[1 + i] = [op |-> "propagate", mat |-> before, surf |-> surf,
                                  path |-> i, bundle |-> rpaths[i][idx]]
            /\ (~mirror) => /\ calls[n + 2].op = "cursor"
                            /\ calls[n + 2].mat = current_material
            /\ mirror => current_material = before
            /\ \A i \in 1..n :
                  calls[1 + n + k + i] =
                      [op |-> IF mirror THEN "reflect" ELSE "refract",
                       mat |-> current_material, surf |-> surf,
                       path |-> i, bundle |-> rpaths[i][idx]]
            /\ \A p \in (n + 1)..Len(rpaths) :
                  \A c \in 1..Len(calls) : calls[c].bundle \notin Range(rpaths[p])

\* while an entry is under way the cursor at its start stays on record and
\* calls are only added
CallsInOrder ==
    (tpc \in {"propagate", "interact"}) => IsPrefix(calls, calls')

\* C12: within one sequence entry the trailing bundle of every live path is
\* propagated to the surface with the material that was current before the
\* entry, all these propagate calls come before the cursor changes and
\* before any refract/reflect call of the entry; refract is then called on
\* the newly selected material (reflect on the unchanged one) exactly once
\* for each path that was live at the start of the entry, and a branch
\* created during the entry receives no call until the next entry.
C12_EntryOrdering ==
    /\ []CallsOfEntry
    /\ [][CallsInOrder]_vars

\* C12 witness: the second entry, a refracting one that moved the cursor, is
\* completed; it began with two live paths and created a branch
C12_Witness ==
    /\ tpc = "loop"
    /\ idx = 2
    /\ liveBefore = 2
    /\ Len(calls) = 6
    /\ calls[4].op = "cursor"
    /\ calls[4].mat # calls[1].mat
    /\ calls[6].op = "refract"
    /\ Len(rpaths) = 3

-----------------------------------------------------------------------------
(* OpticalElement.calculateXYUV and OpticalElement.para_seqtrace              *)
(*                                                                         *)
(* A pilot bundle holds the chief ray (column 0) and one perturbed ray      *)
(* (column 1); of each ray one transverse coordinate is kept, at the        *)
(* bundle's first point (x[0]) and at its last point (x[-1]).  The reduced  *)
(* state of a bundle is then a 1x1 matrix and a transfer matrix a rational  *)
(* number <<numerator, denominator>> in lowest terms.                       *)

PilotVals == {1, 2}

RECURSIVE GCD(_, _)
GCD(a, b) == IF b = 0 THEN a ELSE GCD(b, a % b)

Rat(n, d) == LET g == GCD(n, d) IN <<n \div g, d \div g>>

\* np.dot of two 1x1 matrices
RMul(a, b) == Rat(a[1] * b[1], a[2] * b[2])

\* np.linalg.inv of a 1x1 matrix
RInv(a) == <<a[2], a[1]>>

\* LocalCoordinates.returnGlobalToLocalPoints of the frame of a surface
FrameOrigin == [f \in Frames |-> IF f = "f2" THEN 1 ELSE 0]
FrameScale == [f \in Frames |-> IF f = "f2" THEN 2 ELSE 1]
returnGlobalToLocalPoints(frame, m) ==
    [c \in 1..Len(m) |-> (m[c] - FrameOrigin[frame]) * FrameScale[frame]]

\* reduce_matrix_x: subtract the pilot ray, drop its column
reduce_matrix_x(m) == m[2] - m[1]

\* bestfit_transfer: transfer = (Y X^T) (X X^T)^-1
bestfit_transfer(X, Y) == RMul(<<Y * X, 1>>, RInv(<<X * X, 1>>))

\* lines 225-288: the forward transfer matrix of one hit interval, fitted
\* from its two pilot bundles pb1, pb2 and the surfaces s1, s2
FitTransfer(pb1, pb2, s1, s2) ==
    LET lcstart == rootcoordinatesystem[surfaces[s1]]
        lcend == rootcoordinatesystem[surfaces[s2]]
        startx == returnGlobalToLocalPoints(lcstart, pb1.xl)
        fspropx == returnGlobalToLocalPoints(lcstart, pb2.x0)
        endx_lcstart == returnGlobalToLocalPoints(lcstart, pb2.xl)
        endx == returnGlobalToLocalPoints(lcend, pb2.xl)
        startmatrix == reduce_matrix_x(startx)
        fspropmatrix == reduce_matrix_x(fspropx)
        endmatrix_lcstart == reduce_matrix_x(endx_lcstart)
        endmatrix == reduce_matrix_x(endx)
        refractmatrix == bestfit_transfer(startmatrix, fspropmatrix)
        propagatematrix == bestfit_transfer(fspropmatrix, endmatrix_lcstart)
        coordinatetrafomatrix == bestfit_transfer(endmatrix_lcstart, endmatrix)
    IN  RMul(coordinatetrafomatrix, RMul(propagatematrix, refractmatrix))

Min(a, b) == IF a <= b THEN a ELSE b

\* the length of zip(raybundles[:-1], raybundles[1:], hitlist)
ZipLen == Min(Len(pilotraypath) - 1, Len(hitlist))

PilotBundles == [x0 : {<<0, v>> : v \in PilotVals}, xl : {<<0, v>> : v \in PilotVals}]

\* para_seqtrace is entered with an element that has both surfaces, a
\* Sequence of at most MaxPilotLen entries and, for the pilot path that
\* seqtrace returns and pilotraypath_nr selects (lines 211-215), any path of
\* len(sequence)+1 bundles
InitXY ==
    /\ surfaces = SurfOf
    /\ surf_mat_connection = [k \in SurfKeys |-> <<"m1", "m2">>]
    /\ materials = [k \in MatKeys |-> IF k = "m1" THEN "M1" ELSE "M2"]
    /\ firstAdded = materials
    /\ surfName = [o \in SurfObjs |-> ""]
    /\ matComment = [o \in MatObjs |-> ""]
    /\ call = [nr |-> 0, op |-> "none", key |-> "none", obj |-> "none"]
    /\ outcome = "none"
    /\ IdleHit
    /\ IdleTrace
    /\ IdleIfc
    /\ IdleFit
    /\ \E m \in 0..MaxPilotLen :
          /\ sequence \in [1..m -> SurfKeys \X {EmptyDict}]
          /\ pilotraypath \in [1..(m + 1) -> PilotBundles]
    /\ xpc = "start"
    /\ XYUVmatrices = EmptyDict
    /\ xi = 0
    /\ DX = <<1, 1>>
    /\ used = <<>>

\* lines 209-220
CalcBegin ==
    /\ xpc = "start"
    /\ LET r == sequence_to_hitlist(sequence)
       IN  /\ hitlist' = r[1]
           /\ optionshitlistdict' = r[2]
    /\ XYUVmatrices' = EmptyDict
    /\ xi' = 1
    /\ xpc' = "fit"
    /\ UNCHANGED <<sequence, hpc, seq_back, pilotraypath, DX, used>>
    /\ UNCHANGED NotXY

\* lines 223-296: one turn of the loop over the hit intervals
FitInterval ==
    /\ xpc = "fit"
    /\ xi <= ZipLen
    /\ LET pb1 == pilotraypath[xi]
           pb2 == pilotraypath[xi + 1]
           s1 == hitlist[xi][1]
           s2 == hitlist[xi][2]
           numhit == hitlist[xi][3]
           transfer == FitTransfer(pb1, pb2, s1, s2)
       IN  XYUVmatrices' = Put(Put(XYUVmatrices, <<s1, s2, numhit>>, transfer),
                               <<s2, s1, numhit>>, RInv(transfer))
    /\ xi' = xi + 1
    /\ UNCHANGED <<sequence, hitVars, xpc, pilotraypath, DX, used>>
    /\ UNCHANGED NotXY

\* line 299, then para_seqtrace line 377
CalcReturn ==
    /\ xpc = "fit"
    /\ xi > ZipLen
    /\ LET r == sequence_to_hitlist(sequence)
       IN  /\ hitlist' = r[1]
           /\ optionshitlistdict' = r[2]
    /\ xi' = 1
    /\ xpc' = "para"
    /\ UNCHANGED <<sequence, hpc, seq_back, pilotraypath, XYUVmatrices, DX, used>>
    /\ UNCHANGED NotXY

\* para_seqtrace lines 379-435: DX1 = np.dot(matrices[surfhit], DX0); the
\* next interval starts from the bundle appended here
ParaStep ==
    /\ xpc = "para"
    /\ xi <= ZipLen
    /\ LET surfhit == hitlist[xi]
       IN  /\ DX' = RMul(XYUVmatrices[surfhit], DX)
           /\ used' = Append(used, XYUVmatrices[surfhit])
    /\ xi' = xi + 1
    /\ UNCHANGED <<sequence, hitVars, xpc, pilotraypath, XYUVmatrices>>
    /\ UNCHANGED NotXY

\* para_seqtrace line 437
ParaReturn ==
    /\ xpc = "para"
    /\ xi > ZipLen
    /\ xpc' = "done"
    /\ UNCHANGED <<sequence, hitVars, pilotraypath, XYUVmatrices, xi, DX, used>>
    /\ UNCHANGED NotXY

NextXY == CalcBegin \/ FitInterval \/ CalcReturn \/ ParaStep \/ ParaReturn

SpecXY == InitXY /\ [][NextXY]_vars

(* Claim about the Transfer Matrix Table, checked under SpecXY *)

\* the forward matrix fitted from the pilot bundles of hit interval i
IntervalTransfer(i) ==
    FitTransfer(pilotraypath[i], pilotraypath[i + 1], hitlist[i][1], hitlist[i][2])

\* C1: after calculateXYUV, for every triple (start, end, hit) of the hitlist
\* the table entry under that triple is the forward transfer matrix fitted
\* from the pilot bundles of that hit interval and the entry under
\* (end, start, hit) is its inverse; para_seqtrace multiplies the difference
\* state of each hit interval by the forward matrix fitted for that interval.
C1_TableHoldsIntervalTransfer ==
    /\ (xpc \in {"para", "done"}) =>
          \A i \in 1..Len(hitlist) :
              /\ XYUVmatrices[hitlist[i]] = IntervalTransfer(i)
              /\ XYUVmatrices[<<hitlist[i][2], hitlist[i][1], hitlist[i][3]>>]
                     = RInv(IntervalTransfer(i))
    /\ (xpc = "done") =>
          \A i \in 1..Len(hitlist) : used[i] = IntervalTransfer(i)

(* Claim about the pilot path that calculateXYUV takes from seqtrace,      *)
(* checked under SpecTrace                                                  *)

\* calculateXYUV lines 217-223: the (pb1, pb2, surfhit) triples of
\* zip(raybundles[:-1], raybundles[1:], hitlist)
PilotIntervals(raybundles, hl) ==
    LET startpilotbundle == SubSeq(raybundles, 1, Len(raybundles) - 1)
        endpilotbundle == SubSeq(raybundles, 2, Len(raybundles))
        n == Min(Min(Len(startpilotbundle), Len(endpilotbundle)), Len(hl))
    IN  [i \in 1..n |-> <<startpilotbundle[i], endpilotbundle[i], hl[i]>>]

\* the surface on which the bundle b ends (the surface of its last propagate)
EndsOn(b) == Last(heap[b].traj)[2]

\* C14: between any two sequence entries of seqtrace, and at its end, all
\* live Ray Paths hold the same number of bundles, the number of entries
\* processed plus one, whatever branching occurred; every path returned for
\* a K-entry Sequence has K+1 bundles, and whichever of them calculateXYUV
\* selects supplies for every hitlist interval i the consecutive bundles i
\* and i+1, which end on the start and on the end surface of interval i.
C14_EqualPathLengths ==
    /\ (tpc \in {"loop", "done"}) =>
          \A p \in 1..Len(rpaths) : Len(rpaths[p]) = idx + 1
    /\ (tpc = "done") =>
          LET hl == sequence_to_hitlist(sequence)[1]
          IN  /\ Len(hl) = Max(Len(sequence) - 1, 0)
              /\ \A p \in 1..Len(result) :
                    LET z == PilotIntervals(result[p], hl)
                    IN  /\ Len(result[p]) = Len(sequence) + 1
                        /\ Len(z) = Len(hl)
                        /\ \A i \in 1..Len(hl) :
                              /\ z[i] = <<result[p][i], result[p][i + 1], hl[i]>>
                              /\ EndsOn(z[i][1]) = surfaces[hl[i][1]]
                              /\ EndsOn(z[i][2]) = surfaces[hl[i][2]]

\* C14 witness: a two-entry trace that branched at both entries has returned
\* four paths
C14_Witness ==
    /\ tpc = "done"
    /\ Len(sequence) = 2
    /\ Len(result) = 4
    /\ branchParent = <<1, 2>>

-----------------------------------------------------------------------------
(* glasscatalog.IndexFormulaContainer                                       *)
(*                                                                         *)
(* The object is the dict of its attributes; a function-valued attribute   *)
(* holds the name of the local function (or "interp1d") assigned to it.    *)

NTypes == {"tabulated n", "formula  1", "formula  2", "formula  3", "formula  4",
           "formula  5", "formula  6", "formula  7", "formula  8", "formula  9",
           "formula 10"}

\* k_typ: the default 0 (written "0") or "tabulated k"
KTypes == {"0", "tabulated k"}

\* len(n_coeff) of the coefficient arrays tried
CoeffLens == {9, 11}

\* set_n_function, lines 155-232: the attributes it sets
set_n_function(attrs, n_typ, n_coeff_len) ==
    LET a == Put(attrs, "n_coeff", n_coeff_len)
    IN  CASE n_typ = "tabulated n" -> Put(a, "n_function", "interp1d")
          [] n_typ = "formula  1" -> Put(a, "n_function", "Sellmeier")
          [] n_typ = "formula  2" -> Put(a, "n_function", "Sellmeier2")
          [] n_typ = "formula  3" -> Put(a, "n_function", "Polynomial")
          [] n_typ = "formula  4" ->
                IF n_coeff_len > 10
                THEN Put(a, "n_function",
                         "refractiveindex_dot_info_formula_with_11_or_more_coefficients")
                ELSE Put(a, "n_function",
                         "refractiveindex_dot_info_formula_with_9_or_less_coefficients")
          [] n_typ = "formula  5" -> Put(a, "n_function", "Cauchy")
          [] n_typ = "formula  6" -> Put(a, "n_function", "Gases")
          [] n_typ = "formula  7" -> Put(a, "n_function", "Herzberger")
          [] n_typ = "formula  8" -> Put(a, "n_fucntion", "Retro")
          [] n_typ = "formula  9" -> Put(a, "n_function", "Exotic")
          [] OTHER -> a

\* set_k_function, lines 234-243
set_k_function(attrs, k_typ) ==
    LET a == Put(attrs, "k_coeff", 0)
    IN  IF k_typ = "tabulated k"
        THEN Put(a, "k_function", "interp1d")
        ELSE Put(a, "k_function", "Lossless")

\* how a call fn(w_um = ...) of the function named fn ends: Retro and Exotic
\* raise NotImplementedError (lines 205-208); interp1d objects take no
\* keyword w_um; the formulas return a number
CallNFunction(fn) ==
    CASE fn \in {"Retro", "Exotic"} -> "NotImplementedError"
      [] fn = "interp1d" -> "TypeError"
      [] OTHER -> "number"

\* __init__, lines 131-153
Construct(n_typ, n_coeff_len, k_typ) ==
    /\ ifc_n_typ = "none"
    /\ ifc' = set_k_function(set_n_function(EmptyDict, n_typ, n_coeff_len), k_typ)
    /\ ifc_n_typ' = n_typ
    /\ UNCHANGED getres
    /\ UNCHANGED NotIfc

\* get_n, lines 245-252: reading an attribute that was never set raises
\* AttributeError
get_n(wavelength) ==
    /\ ifc_n_typ # "none"
    /\ getres' = IF "n_function" \in DOMAIN ifc
                 THEN [called |-> TRUE, wavelength |-> wavelength,
                       outcome |-> CallNFunction(ifc["n_function"]),
                       by |-> ifc["n_function"]]
                 ELSE [called |-> TRUE, wavelength |-> wavelength,
                       outcome |-> "AttributeError", by |-> "none"]
    /\ UNCHANGED <<ifc, ifc_n_typ>>
    /\ UNCHANGED NotIfc

CallConstruct ==
    \E n_typ \in NTypes, n \in CoeffLens, k_typ \in KTypes : Construct(n_typ, n, k_typ)

CallGetN == \E w \in 1..MaxWavelength : get_n(w)

InitIfc ==
    /\ InitElement
    /\ sequence = <<>>
    /\ IdleHit
    /\ IdleTrace
    /\ IdleXY
    /\ IdleIfc
    /\ IdleFit

NextIfc == CallConstruct \/ CallGetN

SpecIfc == InitIfc /\ [][NextIfc]_vars

(* Claim about the unimplemented formula kinds, checked under SpecIfc *)

\* C10: for a container built with "formula  8" (Retro) or "formula  9"
\* (Exotic), every get_n call fails with the not-implemented error.
C10_UnimplementedFormulasFail ==
    (getres.called /\ ifc_n_typ \in {"formula  8", "formula  9"})
        => getres.outcome = "NotImplementedError"

-----------------------------------------------------------------------------
(* calculateXYUV.bestfit_transfer on state matrices with sub-blocks          *)
(*                                                                         *)
(* A state matrix is a list of rows, one column per perturbation ray.  Each *)
(* sub-block of the code's matrices (two rows: the x and the y component)   *)
(* is reduced to one row, so the 6-row state (position, direction real,     *)
(* direction imaginary) has three rows and the slice [4:] is the third row; *)
(* the 4-row state (position, direction) has two rows, the direction being  *)
(* real in the matrices tried.  Entries are integers; a norm is then below  *)
(* the numerical tolerance exactly when all entries are zero.               *)

Entries == {0, 1}

ZeroRow == [c \in 1..NumPts |-> 0]
OnesRow == [c \in 1..NumPts |-> 1]

\* the input state matrices tried, and the output state matrices tried
StateMatrices == [1..3 -> [1..NumPts -> Entries]]
OutMatrices == [1..3 -> {ZeroRow, OnesRow}]

RECURSIVE SumProd(_, _, _)
SumProd(u, v, n) == IF n = 0 THEN 0 ELSE SumProd(u, v, n - 1) + u[n] * v[n]

\* np.einsum('ij, kj', A, B): the matrix of the row products of A and B
einsum_ij_kj(A, B) ==
    [r \in 1..Len(A) |-> [c \in 1..Len(B) |-> SumProd(A[r], B[c], Len(A[r]))]]

\* .T
Transpose(M) == [r \in 1..Len(M[1]) |-> [c \in 1..Len(M) |-> M[c][r]]]

\* np.dot of two matrices
MatDot(A, B) == einsum_ij_kj(A, Transpose(B))

\* np.linalg.norm(block) < numerical_tolerance, for an integer block
NearZero(block) ==
    \A r \in 1..Len(block) : SumProd(block[r], block[r], Len(block[r])) = 0

RemoveAt(q, i) == [m \in 1..(Len(q) - 1) |-> IF m < i THEN q[m] ELSE q[m + 1]]

Minor(M, r, c) == [m \in 1..(Len(M) - 1) |-> RemoveAt(RemoveAt(M, r)[m], c)]

Sign(n) == IF n % 2 = 0 THEN 1 ELSE -1

RECURSIVE Det(_)
RECURSIVE DetRow(_, _)
\* the cofactor expansion along the first row, columns 1..c
DetRow(M, c) ==
    IF c = 0 THEN 0
    ELSE DetRow(M, c - 1) + Sign(1 + c) * M[1][c] * Det(Minor(M, 1, c))

Det(M) == IF Len(M) = 1 THEN M[1][1] ELSE DetRow(M, Len(M))

\* the adjugate: inv(M) = Adjugate(M) / Det(M)
Adjugate(M) ==
    [r \in 1..Len(M) |-> [c \in 1..Len(M) |->
        IF Len(M) = 1 THEN 1 ELSE Sign(r + c) * Det(Minor(M, c, r))]]

\* np.linalg.inv raises LinAlgError ("Singular matrix") for a singular matrix
Singular(M) == Det(M) = 0

ZeroRowsWarning == "Start or end matrix contain zero rows: setting them to unity"

\* bestfit_transfer, lines 179-206: the products XX and YX, the test of the
\* direction-imaginary rows X[4:, :] and Y[4:, :] in 6-row mode with the
\* substitution of the blocks XX[4:, 4:] and YX[4:, 4:], and the transfer
\* matrix np.dot(YX, inv(XX)), kept as numerator matrix and denominator
bestfit_transfer_blocks(X, Y, six) ==
    LET XX0 == Transpose(einsum_ij_kj(X, X))
        YX0 == Transpose(einsum_ij_kj(X, Y))
        Ximag == SubSeq(X, 3, Len(X))
        Yimag == SubSeq(Y, 3, Len(Y))
        subst == six /\ (NearZero(Ximag) \/ NearZero(Yimag))
        XX == IF subst THEN [XX0 EXCEPT ![3][3] = 1] ELSE XX0
        YX == IF subst THEN [YX0 EXCEPT ![3][3] = 1] ELSE YX0
    IN  [called |-> TRUE,
         warnings |-> IF subst THEN {ZeroRowsWarning} ELSE {},
         XX |-> XX,
         YX |-> YX,
         outcome |-> IF Singular(XX) THEN "LinAlgError" ELSE "matrix",
         num |-> IF Singular(XX) THEN <<>> ELSE MatDot(YX, Adjugate(XX)),
         den |-> Det(XX)]

\* lines 270-278: the state matrices stacked for the mode
Stacked(M, six) == IF six THEN M ELSE SubSeq(M, 1, 2)

InitFit ==
    /\ InitElement
    /\ sequence = <<>>
    /\ IdleHit
    /\ IdleTrace
    /\ IdleXY
    /\ IdleIfc
    /\ use6x6 \in BOOLEAN
    /\ fitX \in StateMatrices
    /\ fitY \in OutMatrices
    /\ fitres = NoFit

\* one call bestfit_transfer(X, Y, use6x6=use6x6), lines 282-286
CallBestfitTransfer ==
    /\ ~fitres.called
    /\ fitres' = bestfit_transfer_blocks(Stacked(fitX, use6x6), Stacked(fitY, use6x6),
                                         use6x6)
    /\ UNCHANGED <<fitX, fitY, use6x6>>
    /\ UNCHANGED NotFit

NextFit == CallBestfitTransfer

SpecFit == InitFit /\ [][NextFit]_vars

(* Claim about the near-zero sub-blocks, checked under SpecFit *)

\* a direction sub-block of the input or of the output state is near zero
SomeDirectionBlockNearZero ==
    \E b \in {2, 3} : NearZero(<<fitX[b]>>) \/ NearZero(<<fitY[b]>>)

\* C13: in 6-row mode, whenever the direction-real or the direction-imaginary
\* sub-block of the input or of the output state matrix is near zero,
\* bestfit_transfer emits the warning, substitutes identity and still returns
\* a transfer matrix; in 4-row mode no substitution is made.
C13_NearZeroSubstitution ==
    fitres.called =>
        /\ (use6x6 /\ SomeDirectionBlockNearZero) =>
              /\ ZeroRowsWarning \in fitres.warnings
              /\ fitres.outcome = "matrix"
        /\ (~use6x6) =>
              /\ fitres.warnings = {}
              /\ fitres.XX = Transpose(einsum_ij_kj(Stacked(fitX, FALSE), Stacked(fitX, FALSE)))
              /\ fitres.YX = Transpose(einsum_ij_kj(Stacked(fitX, FALSE), Stacked(fitY, FALSE)))

====
